---- MODULE Spec2Model ----
(***************************************************************************)
(* Model of build.rs of zig-rs: the build script that, when DO_IT is set,  *)
(* downloads and unpacks zig-bootstrap, runs its ./build script for the    *)
(* mapped target and moves zig / zig.exe and lib/ into OUT_DIR.            *)
(*                                                                         *)
(* The filesystem is a function from path to content.  One action models   *)
(* one fallible operation of main(); every `?` of the source is a          *)
(* nondeterministic failure of that operation.  Several runs of the script *)
(* follow each other on the same filesystem.                               *)
(***************************************************************************)
EXTENDS Integers, Sequences, FiniteSets, TLC

\* Number of runs of the build script on the same filesystem.
MaxRuns == 2
\* Largest exit code of the ./build subprocess that is enumerated.
MaxExitCode == 1

----------------------------------------------------------------------------
\* Values

None == <<>>
Some(x) == <<x>>

\* Target triples cargo may hand to the script: the three mapped ones and
\* two that build.rs does not list.
Triples ==
  { "aarch64-apple-darwin", "x86_64-unknown-linux-gnu", "x86_64-pc-windows-gnu",
    "riscv64gc-unknown-linux-gnu", "x86_64-pc-windows-msvc" }

\* Final HTTP statuses of the GET (redirects already followed by reqwest).
HttpStatuses == {200, 304, 404}

\* "absent": no such path.  A file or directory that exists is "empty",
\* "partial" (truncated archive, half-extracted tree) or "full".
Content == {"absent", "empty", "partial", "full"}

Join(a, b) == a \o "/" \o b

SourceTree == "zig-bootstrap"
Archive == "zig-bootstrap.zip"
out_dir == "OUT_DIR"

----------------------------------------------------------------------------
\* fn zig_target_mcpu_for_build_target

ZigTargetDefaultPair(target) ==
  CASE target = "aarch64-apple-darwin" -> Some(<<"aarch64-macos-none", "baseline">>)
    [] target = "x86_64-unknown-linux-gnu" -> Some(<<"x86_64-linux-gnu", "baseline">>)
    [] target = "x86_64-pc-windows-gnu" -> Some(<<"x86_64-windows-gnu", "baseline">>)
    [] OTHER -> Some(<<"x86_64-linux-gnu", "baseline">>)

zig_target_mcpu_for_build_target(target) ==
  CASE target = "aarch64-apple-darwin" -> Some(<<"aarch64-macos-none", "baseline">>)
    [] target = "x86_64-unknown-linux-gnu" -> Some(<<"x86_64-linux-gnu", "baseline">>)
    [] target = "x86_64-pc-windows-gnu" -> Some(<<"x86_64-windows-gnu", "baseline">>)
    [] OTHER -> None

----------------------------------------------------------------------------
\* Pure helpers of main()

\* env::var("DO_IT").is_ok()
GateAlwaysOpen(e) == TRUE
GateOpen(e) == e.DO_IT

\* fn docs_rs
DocsNever(e) == FALSE
docs_rs(e) == e.DOCS_RS

\* !docs_rs() && !fs::exists("zig-bootstrap")
NeedsFetchIgnoringTree(e, exists) == ~docs_rs(e)
NeedsFetchIgnoringDocs(e, exists) == ~exists
NeedsFetch(e, exists) == ~docs_rs(e) /\ ~exists

\* Response::error_for_status: an error for 4xx and 5xx, the response otherwise
IsErrorStatus(code) == code >= 400 /\ code < 600

\* if build::cargo_cfg_windows() { "zig.exe" } else { "zig" }
BinName(e) == IF e.windows THEN "zig.exe" ELSE "zig"

\* if cfg!(windows) { "./build.bat" } else { "./build" }
BuildScript(hostWin) == IF hostWin THEN "./build.bat" ELSE "./build"

\* status.success()
SuccessAlways(code) == TRUE
ExitSuccess(code) == code = 0

\* Path::new("zig-bootstrap").join("out").join(format!("zig-{}-{}", ..))
zig_out_dir(zig_target, zig_mcpu) ==
  Join(Join(SourceTree, "out"), "zig-" \o zig_target \o "-" \o zig_mcpu)

\* Where ./build <target> <mcpu> run in `cwd` leaves its output
\* (./out/zig-<triple>-<cpu>/), and how it names the binary there.
BootstrapOutDir(cwd, args) ==
  Join(Join(cwd, "out"), "zig-" \o args[1] \o "-" \o args[2])
BootstrapBinName(args) == IF args[1] = "x86_64-windows-gnu" THEN "zig.exe" ELSE "zig"

----------------------------------------------------------------------------
\* Filesystem

Pairs == { zig_target_mcpu_for_build_target(t)[1] :
             t \in { u \in Triples : zig_target_mcpu_for_build_target(u) # None } }
EntryNames == {"zig", "zig.exe", "lib"}
BuildPaths == { Join(BootstrapOutDir(SourceTree, p), n) : p \in Pairs, n \in EntryNames }
OutPaths == { Join(out_dir, n) : n \in EntryNames }
AllPaths == {SourceTree, Archive} \cup OutPaths \cup BuildPaths

\* fs::exists
Exists(f, p) == p \in DOMAIN f /\ f[p] # "absent"

\* File::create + copy_to, fs_err::write
WriteFileNoop(f, p, c) == f
WriteFile(f, p, c) == [f EXCEPT ![p] = c]

\* fs_err::remove_file
RemoveFileKeeps(f, p) == f
RemoveFileAndTree(f, p) == [f EXCEPT ![p] = "absent", ![SourceTree] = "absent"]
RemoveFile(f, p) == [f EXCEPT ![p] = "absent"]

\* fs_err::create_dir_all: an existing directory is left as it is
CreateDirAllNoop(f, p) == f
CreateDirAll(f, p) == IF Exists(f, p) THEN f ELSE [f EXCEPT ![p] = "empty"]

\* fs_err::rename: the source path is gone, the destination has its content
RenameCopies(f, from, to) == [f EXCEPT ![to] = f[from]]
Rename(f, from, to) == [f EXCEPT ![to] = f[from], ![from] = "absent"]

\* rename can succeed only if the source exists and the destination is not
\* a non-empty directory
IsDir(p) == \E d \in {out_dir} \cup { BootstrapOutDir(SourceTree, q) : q \in Pairs } :
               p = Join(d, "lib")
CanRename(f, from, to) ==
  /\ Exists(f, from)
  /\ to \in DOMAIN f
  /\ ~(IsDir(to) /\ f[to] \in {"partial", "full"})

----------------------------------------------------------------------------
\* State

VARIABLES
  host_windows, \* cfg!(windows) of the compiled build script
  env,          \* DO_IT, DOCS_RS, CARGO_CFG_WINDOWS, TARGET of the current run
  pc,           \* position of the current run in main()
  fs,           \* the filesystem: path -> content
  fs0,          \* the filesystem when the current run started
  response,     \* HTTP status of the response held by main(), 0 if none
  zig,          \* (zig_target, zig_mcpu) returned by the mapper, None if none
  cmd,          \* the Command built by main()
  status,       \* exit code of the subprocess
  result,       \* what main() returned
  trace,        \* the effectful operations the current run has called, in order
  runs,         \* number of runs started
  acquired      \* how an earlier run got past source acquisition without error:
                \* "no" (none did), "skipped" (the tree was there), "fetched"

vars == << host_windows, env, pc, fs, fs0, response, zig, cmd, status, result,
           trace, runs, acquired >>

NoCmd == [program |-> "", cwd |-> "", args |-> <<>>]
NoResult == [kind |-> "none", error |-> "", cmd |-> NoCmd, status |-> 0, target |-> ""]
Ok == [kind |-> "Ok", error |-> "", cmd |-> NoCmd, status |-> 0, target |-> ""]
Err(e) == [kind |-> "Err", error |-> e, cmd |-> NoCmd, status |-> 0, target |-> ""]

Envs == [DO_IT : BOOLEAN, DOCS_RS : BOOLEAN, windows : BOOLEAN, target : Triples]

\* Filesystems the first run can find: the source tree missing, half
\* extracted or complete, a leftover archive or none, OUT_DIR empty or
\* holding the lib/ and binary of an earlier build.
InitFs ==
  { [p \in AllPaths |->
       IF p = SourceTree THEN t
       ELSE IF p = Archive THEN z
       ELSE IF p = Join(out_dir, "lib") THEN l
       ELSE IF p = Join(out_dir, "zig") THEN b
       ELSE "absent"] :
    t \in {"absent", "partial", "full"}, z \in {"absent", "partial"},
    l \in {"absent", "empty", "full"}, b \in {"absent", "full"} }

Init ==
  /\ host_windows \in BOOLEAN
  /\ env = [DO_IT |-> FALSE, DOCS_RS |-> FALSE, windows |-> FALSE,
            target |-> "x86_64-unknown-linux-gnu"]
  /\ pc = "idle"
  /\ fs \in InitFs
  /\ fs0 = fs
  /\ response = 0
  /\ zig = None
  /\ cmd = NoCmd
  /\ status = 0
  /\ result = NoResult
  /\ trace = <<>>
  /\ runs = 0
  /\ acquired = "no"

\* The current run has called operation op
Called(op) == \E i \in DOMAIN trace : trace[i] = op
Count(op) == Cardinality({ i \in DOMAIN trace : trace[i] = op })

\* main() returns r
Return(r) ==
  /\ pc' = "returned"
  /\ result' = r

\* cargo starts the build script
StartRun ==
  /\ pc \in {"idle", "returned"}
  /\ runs < MaxRuns
  /\ \E e \in Envs : env' = e
  /\ pc' = "gate"
  /\ runs' = runs + 1
  /\ fs0' = fs
  /\ response' = 0
  /\ zig' = None
  /\ cmd' = NoCmd
  /\ status' = 0
  /\ result' = NoResult
  /\ trace' = <<>>
  /\ acquired' = IF Called("map_target") /\ Called("remove_file") THEN "fetched"
                 ELSE IF Called("map_target") /\ acquired = "no" THEN "skipped"
                 ELSE acquired
  /\ UNCHANGED << host_windows, fs >>

\* if !env::var("DO_IT").is_ok() { return Ok(()) }
Gate ==
  /\ pc = "gate"
  /\ IF ~GateOpen(env) THEN Return(Ok)
     ELSE pc' = "check_source" /\ UNCHANGED result
  /\ UNCHANGED << host_windows, env, fs, fs0, response, zig, cmd, status, trace,
                  runs, acquired >>

\* if !docs_rs() && !fs::exists("zig-bootstrap")? {
CheckSource ==
  /\ pc = "check_source"
  /\ \/ /\ NeedsFetch(env, Exists(fs, SourceTree))
        /\ pc' = "get"
        /\ UNCHANGED result
     \/ /\ ~NeedsFetch(env, Exists(fs, SourceTree))
        /\ pc' = "mode"
        /\ UNCHANGED result
     \/ /\ ~docs_rs(env)
        /\ Return(Err("exists"))
  /\ UNCHANGED << host_windows, env, fs, fs0, response, zig, cmd, status, trace, runs,
                  acquired >>

\* let response = reqwest::blocking::get(format!(..))?;
Get ==
  /\ pc = "get"
  /\ trace' = Append(trace, "get")
  /\ \/ /\ \E s \in HttpStatuses : response' = s
        /\ pc' = "error_for_status"
        /\ UNCHANGED result
     \/ /\ Return(Err("transport"))
        /\ UNCHANGED response
  /\ UNCHANGED << host_windows, env, fs, fs0, zig, cmd, status, runs, acquired >>

\* let mut response = response.error_for_status()?;
ErrorForStatus ==
  /\ pc = "error_for_status"
  /\ IF IsErrorStatus(response) THEN Return(Err("status"))
     ELSE pc' = "create" /\ UNCHANGED result
  /\ UNCHANGED << host_windows, env, fs, fs0, response, zig, cmd, status, trace,
                  runs, acquired >>

\* let mut file = fs_err::File::create("zig-bootstrap.zip")?;
CreateArchive ==
  /\ pc = "create"
  /\ trace' = Append(trace, "create")
  /\ \/ /\ fs' = WriteFile(fs, Archive, "empty")
        /\ pc' = "copy_to"
        /\ UNCHANGED result
     \/ /\ Return(Err("create"))
        /\ UNCHANGED fs
  /\ UNCHANGED << host_windows, env, fs0, response, zig, cmd, status, runs, acquired >>

\* response.copy_to(&mut file)?;  The body is a zip archive ("full") or not
\* ("partial"); a failed copy leaves what was written so far.
CopyTo ==
  /\ pc = "copy_to"
  /\ trace' = Append(trace, "copy_to")
  /\ \/ /\ \E c \in {"partial", "full"} : fs' = WriteFile(fs, Archive, c)
        /\ pc' = "open"
        /\ UNCHANGED result
     \/ /\ fs' = WriteFile(fs, Archive, "partial")
        /\ Return(Err("copy_to"))
  /\ UNCHANGED << host_windows, env, fs0, response, zig, cmd, status, runs, acquired >>

\* let file = fs_err::File::open("zig-bootstrap.zip")?;
OpenArchive ==
  /\ pc = "open"
  /\ \/ pc' = "zip_new" /\ UNCHANGED result
     \/ Return(Err("open"))
  /\ UNCHANGED << host_windows, env, fs, fs0, response, zig, cmd, status, trace,
                  runs, acquired >>

\* let mut zip_archive = ZipArchive::new(file)?;
ZipNew ==
  /\ pc = "zip_new"
  /\ IF fs[Archive] = "full" THEN pc' = "extract" /\ UNCHANGED result
     ELSE Return(Err("archive"))
  /\ UNCHANGED << host_windows, env, fs, fs0, response, zig, cmd, status, trace,
                  runs, acquired >>

\* zip_archive.extract_unwrapped_root_dir("zig-bootstrap", ..)?;  A failed
\* extraction leaves the directory missing or half written.
Extract ==
  /\ pc = "extract"
  /\ trace' = Append(trace, "extract")
  /\ \/ /\ fs' = [fs EXCEPT ![SourceTree] = "full"]
        /\ pc' = "remove_file"
        /\ UNCHANGED result
     \/ /\ \E c \in {"absent", "partial"} : fs' = [fs EXCEPT ![SourceTree] = c]
        /\ Return(Err("extract"))
  /\ UNCHANGED << host_windows, env, fs0, response, zig, cmd, status, runs, acquired >>

\* fs_err::remove_file("zig-bootstrap.zip")?;
RemoveArchive ==
  /\ pc = "remove_file"
  /\ trace' = Append(trace, "remove_file")
  /\ \/ /\ fs' = RemoveFile(fs, Archive)
        /\ pc' = "mode"
        /\ UNCHANGED result
     \/ /\ Return(Err("remove_file"))
        /\ UNCHANGED fs
  /\ UNCHANGED << host_windows, env, fs0, response, zig, cmd, status, runs, acquired >>

\* if docs_rs() { .. } else { .. }
Mode ==
  /\ pc = "mode"
  /\ pc' = IF docs_rs(env) THEN "write" ELSE "map_target"
  /\ UNCHANGED << host_windows, env, fs, fs0, response, zig, cmd, status, result,
                  trace, runs, acquired >>

\* fs_err::write(build::out_dir().join(..), [])?;
WritePlaceholder ==
  /\ pc = "write"
  /\ trace' = Append(trace, "write")
  /\ \/ /\ fs' = WriteFile(fs, Join(out_dir, BinName(env)), "empty")
        /\ pc' = "create_dir_all"
        /\ UNCHANGED result
     \/ /\ Return(Err("write"))
        /\ UNCHANGED fs
  /\ UNCHANGED << host_windows, env, fs0, response, zig, cmd, status, runs, acquired >>

\* fs_err::create_dir_all(build::out_dir().join("lib"))?;
CreateLibDir ==
  /\ pc = "create_dir_all"
  /\ trace' = Append(trace, "create_dir_all")
  /\ \/ /\ fs' = CreateDirAll(fs, Join(out_dir, "lib"))
        /\ Return(Ok)
     \/ /\ Return(Err("create_dir_all"))
        /\ UNCHANGED fs
  /\ UNCHANGED << host_windows, env, fs0, response, zig, cmd, status, runs, acquired >>

\* let (zig_target, zig_mcpu) = zig_target_mcpu_for_build_target()
\*     .ok_or_else(|| format!("unmapped target: {}", build::target()))?;
MapTarget ==
  /\ pc = "map_target"
  /\ trace' = Append(trace, "map_target")
  /\ zig' = zig_target_mcpu_for_build_target(env.target)
  /\ IF zig' = None
     THEN Return([Err("unmapped target") EXCEPT !.target = env.target])
     ELSE pc' = "status" /\ UNCHANGED result
  /\ UNCHANGED << host_windows, env, fs, fs0, response, cmd, status, runs, acquired >>

\* What the ./build subprocess can leave behind: nothing, the binary, lib/
\* or both, under its own output directory.
ChildEffects(f, c) ==
  { [p \in DOMAIN f |->
       IF /\ p = Join(BootstrapOutDir(c.cwd, c.args), BootstrapBinName(c.args)) /\ b
          THEN "full"
       ELSE IF p = Join(BootstrapOutDir(c.cwd, c.args), "lib") /\ l THEN "full"
       ELSE f[p]] : b \in BOOLEAN, l \in BOOLEAN }

\* Command::new(..).current_dir("zig-bootstrap").arg(..).arg(..) ..;
\* let status = cmd.status()?;
RunBuild ==
  /\ pc = "status"
  /\ trace' = Append(trace, "status")
  /\ cmd' = [program |-> BuildScript(host_windows), cwd |-> SourceTree, args |-> zig[1]]
  /\ \/ /\ Exists(fs, cmd'.cwd)
        /\ fs' \in ChildEffects(fs, cmd')
        /\ \E code \in 0..MaxExitCode : status' = code
        /\ pc' = "check_status"
        /\ UNCHANGED result
     \/ /\ Return(Err("spawn"))
        /\ UNCHANGED << fs, status >>
  /\ UNCHANGED << host_windows, env, fs0, response, zig, runs, acquired >>

\* if !status.success() { return Err(format!("zig-bootstrap {:?} failed: {}", ..)) }
CheckStatusRetries ==
  /\ pc = "check_status"
  /\ pc' = IF status = 0 THEN "rename_bin" ELSE "status"
  /\ UNCHANGED << host_windows, env, fs, fs0, response, zig, cmd, status, result,
                  trace, runs, acquired >>
CheckStatus ==
  /\ pc = "check_status"
  /\ IF ~ExitSuccess(status)
     THEN Return([Err("zig-bootstrap failed") EXCEPT !.cmd = cmd, !.status = status])
     ELSE pc' = "rename_bin" /\ UNCHANGED result
  /\ UNCHANGED << host_windows, env, fs, fs0, response, zig, cmd, status, trace,
                  runs, acquired >>

\* fs_err::rename(zig_out_dir.join(zig|zig.exe), build::out_dir().join(zig|zig.exe))?;
RenameBin ==
  /\ pc = "rename_bin"
  /\ trace' = Append(trace, "rename_bin")
  /\ LET from == Join(zig_out_dir(zig[1][1], zig[1][2]), BinName(env))
         to == Join(out_dir, BinName(env))
     IN \/ /\ CanRename(fs, from, to)
           /\ fs' = Rename(fs, from, to)
           /\ pc' = "rename_lib"
           /\ UNCHANGED result
        \/ /\ Return(Err("rename"))
           /\ UNCHANGED fs
  /\ UNCHANGED << host_windows, env, fs0, response, zig, cmd, status, runs, acquired >>

\* fs_err::rename(zig_out_dir.join("lib"), build::out_dir().join("lib"))?;
RenameLibIgnoresError ==
  /\ pc = "rename_lib"
  /\ trace' = Append(trace, "rename_lib")
  /\ LET from == Join(zig_out_dir(zig[1][1], zig[1][2]), "lib")
         to == Join(out_dir, "lib")
     IN \/ /\ CanRename(fs, from, to)
           /\ fs' = Rename(fs, from, to)
        \/ UNCHANGED fs
  /\ Return(Ok)
  /\ UNCHANGED << host_windows, env, fs0, response, zig, cmd, status, runs, acquired >>
RenameLib ==
  /\ pc = "rename_lib"
  /\ trace' = Append(trace, "rename_lib")
  /\ LET from == Join(zig_out_dir(zig[1][1], zig[1][2]), "lib")
         to == Join(out_dir, "lib")
     IN \/ /\ CanRename(fs, from, to)
           /\ fs' = Rename(fs, from, to)
           /\ Return(Ok)
        \/ /\ Return(Err("rename"))
           /\ UNCHANGED fs
  /\ UNCHANGED << host_windows, env, fs0, response, zig, cmd, status, runs, acquired >>

Next ==
  \/ StartRun
  \/ Gate
  \/ CheckSource
  \/ Get
  \/ ErrorForStatus
  \/ CreateArchive
  \/ CopyTo
  \/ OpenArchive
  \/ ZipNew
  \/ Extract
  \/ RemoveArchive
  \/ Mode
  \/ WritePlaceholder
  \/ CreateLibDir
  \/ MapTarget
  \/ RunBuild
  \/ CheckStatus
  \/ RenameBin
  \/ RenameLib

Spec == Init /\ [][Next]_vars

\* The steps of a run that has started.  main() is sequential and every call
\* it makes blocks until it returns, so a started run keeps taking steps as
\* long as the fetch, the extraction and the subprocess return; nothing
\* obliges cargo to start another run.
RunStep ==
  \/ Gate \/ CheckSource \/ Get \/ ErrorForStatus \/ CreateArchive \/ CopyTo
  \/ OpenArchive \/ ZipNew \/ Extract \/ RemoveArchive \/ Mode \/ WritePlaceholder
  \/ CreateLibDir \/ MapTarget \/ RunBuild \/ CheckStatus \/ RenameBin \/ RenameLib

\* A first build: cargo hands the script an empty OUT_DIR and there is no
\* leftover archive; the source tree is missing, half extracted or complete.
\* What earlier runs leave in OUT_DIR and on disk is met by the runs that
\* follow.  The host of the script changes no branch of main().
FairInit ==
  /\ Init
  /\ ~host_windows
  /\ ~Exists(fs, Archive)
  /\ \A p \in OutPaths : ~Exists(fs, p)

FairSpec == FairInit /\ [][Next]_vars /\ WF_vars(RunStep)

----------------------------------------------------------------------------
\* Properties

Returned == pc = "returned"
InRun == pc # "idle"
OutBin == Join(out_dir, IF env.windows THEN "zig.exe" ELSE "zig")
OutLib == Join(out_dir, "lib")
OutDirUnchanged == \A p \in OutPaths : fs[p] = fs0[p]
AcquisitionOps == {"get", "create", "copy_to", "extract", "remove_file"}
NoAcquisition == \A op \in AcquisitionOps : ~Called(op)
NoRelocation == ~Called("rename_bin") /\ ~Called("rename_lib")
Unlisted(t) ==
  t \notin {"x86_64-unknown-linux-gnu", "aarch64-apple-darwin", "x86_64-pc-windows-gnu"}

\* C1: in a run without DO_IT nothing is called and nothing on disk changes,
\* whatever DOCS_RS, the Windows flag, the triple and the filesystem are; the
\* run goes from the gate straight to returning Ok.
C1_GateClosedNoEffect ==
  (InRun /\ ~env.DO_IT) =>
     /\ pc \in {"gate", "returned"}
     /\ trace = <<>>
     /\ fs = fs0
     /\ cmd = NoCmd
     /\ response = 0
     /\ (Returned => result = Ok)

C1_Witness ==
  /\ Returned /\ ~env.DO_IT /\ env.DOCS_RS /\ env.windows
  /\ result = Ok
  /\ ~Exists(fs, SourceTree)
  /\ runs = 2

\* C2 as stated: whenever a run with DOCS_RS set returns (here even only:
\* returns Ok), OUT_DIR holds the binary and lib/.
C2_DocsAlwaysProduces ==
  (Returned /\ env.DOCS_RS /\ result = Ok) => (Exists(fs, OutBin) /\ Exists(fs, OutLib))

\* C2 amended: whenever a run with DO_IT and DOCS_RS set returns Ok, OUT_DIR
\* holds the binary (zig or zig.exe per the Windows flag) and lib/.
C2_DocsProducesWhenGateOpen ==
  (Returned /\ env.DO_IT /\ env.DOCS_RS /\ result = Ok) =>
     (Exists(fs, OutBin) /\ Exists(fs, OutLib))

C2_Witness ==
  /\ Returned /\ env.DO_IT /\ env.DOCS_RS /\ env.windows /\ result = Ok
  /\ ~Exists(fs0, SourceTree) /\ ~Exists(fs0, OutLib) /\ ~Exists(fs0, OutBin)
  /\ fs[OutBin] = "empty" /\ fs[OutLib] = "empty"

\* C3: once the mapper has been called, its result is the pair the table
\* gives for the triple, and None for a triple that is not in the table.
C3_TargetTable ==
  Called("map_target") =>
     /\ env.target = "x86_64-unknown-linux-gnu"
          => zig = Some(<<"x86_64-linux-gnu", "baseline">>)
     /\ env.target = "aarch64-apple-darwin"
          => zig = Some(<<"aarch64-macos-none", "baseline">>)
     /\ env.target = "x86_64-pc-windows-gnu"
          => zig = Some(<<"x86_64-windows-gnu", "baseline">>)
     /\ Unlisted(env.target) => zig = None

C3_Witness ==
  /\ Called("map_target")
  /\ env.target = "aarch64-apple-darwin"
  /\ zig = Some(<<"aarch64-macos-none", "baseline">>)
  /\ runs = 2

\* C4 as stated: a run with DO_IT set, DOCS_RS unset and an unlisted triple
\* returns the unmapped-target error, without starting the subprocess or
\* moving an artifact.
C4_UnlistedEndsUnmapped ==
  (Returned /\ env.DO_IT /\ ~env.DOCS_RS /\ Unlisted(env.target)) =>
     /\ result.kind = "Err" /\ result.error = "unmapped target"
     /\ ~Called("status") /\ NoRelocation

\* C4 amended: in such a run the subprocess is never started, no artifact is
\* moved and OUT_DIR is unchanged; the run returns an error, and when source
\* acquisition did not fail first that error is the unmapped-target error
\* naming the triple.
C4_UnlistedNeverBuilds ==
  (InRun /\ env.DO_IT /\ ~env.DOCS_RS /\ Unlisted(env.target)) =>
     /\ ~Called("status") /\ cmd = NoCmd
     /\ NoRelocation /\ OutDirUnchanged
     /\ Returned => result.kind = "Err"
     /\ (Returned /\ Called("map_target")) =>
          (result.error = "unmapped target" /\ result.target = env.target)

C4_Witness ==
  /\ Returned /\ env.DO_IT /\ ~env.DOCS_RS
  /\ env.target = "riscv64gc-unknown-linux-gnu"
  /\ result.error = "unmapped target"
  /\ Called("map_target")

\* C5: when the subprocess has exited with a non-zero status, no rename is
\* called and OUT_DIR is as the run found it, and the run returns the error
\* that carries the command (script, working directory, arguments) and the
\* exit status.
C5_BuildFailureStopsRun ==
  (InRun /\ status # 0) =>
     /\ NoRelocation /\ OutDirUnchanged
     /\ pc \in {"check_status", "returned"}
     /\ Returned =>
          /\ result.kind = "Err" /\ result.error = "zig-bootstrap failed"
          /\ result.status = status
          /\ result.cmd = [program |-> IF host_windows THEN "./build.bat" ELSE "./build",
                           cwd |-> "zig-bootstrap", args |-> zig[1]]

C5_Witness ==
  /\ Returned /\ status = 1
  /\ result.error = "zig-bootstrap failed" /\ result.status = 1
  /\ fs[Join(BootstrapOutDir(cmd.cwd, cmd.args), "lib")] = "full"
  /\ ~Exists(fs, OutLib)

\* C6 as stated: when the GET is answered with a status outside 200..299, no
\* archive file is created and the run returns an error with the archive and
\* the source tree as absent as before.
C6_NonSuccessStatusFailsBeforeCreate ==
  (InRun /\ response # 0 /\ ~(response >= 200 /\ response < 300)) =>
     /\ ~Called("create")
     /\ pc \in {"error_for_status", "returned"}
     /\ Returned =>
          /\ result.kind = "Err"
          /\ fs[Archive] = fs0[Archive]
          /\ ~Exists(fs, SourceTree)

\* C7: once an earlier run has got through source acquisition (the tree was
\* there or it fetched and unpacked it), no later run fetches, writes the
\* archive or extracts; and no run calls the GET more than once.
C7_AcquireIdempotent ==
  /\ Count("get") <= 1
  /\ (acquired # "no") => (NoAcquisition /\ fs[Archive] = fs0[Archive]
                             /\ fs[SourceTree] = fs0[SourceTree])

C7_Witness ==
  /\ acquired = "fetched"
  /\ Returned /\ env.DO_IT /\ ~env.DOCS_RS
  /\ Called("map_target")

\* C8 as stated: when a run that created the archive returns because opening,
\* reading or extracting the archive failed, the archive file is gone.
C8_ArchiveRemovedOnExtractFailure ==
  (Returned /\ Called("copy_to") /\ result.error \in {"open", "archive", "extract"}) =>
     ~Exists(fs, Archive)

\* C9: when a run that created the archive file returns Ok, the archive file
\* is gone.
C9_NoArchiveAfterSuccess ==
  (Returned /\ result = Ok /\ Called("create")) => ~Exists(fs, Archive)

C9_Witness ==
  /\ Returned /\ result = Ok /\ Called("create") /\ Called("rename_lib")
  /\ Exists(fs, SourceTree)

\* C10: when a run with DO_IT set and DOCS_RS unset returns Ok, the binary
\* and lib/ are in OUT_DIR, neither is left under
\* zig-bootstrap/out/zig-<target>-<mcpu>/ for the pair given to the
\* subprocess, and each rename was called exactly once.
C10_ArtifactsMoved ==
  (Returned /\ result = Ok /\ env.DO_IT /\ ~env.DOCS_RS) =>
     LET produced == "zig-bootstrap/out/zig-" \o cmd.args[1] \o "-" \o cmd.args[2]
         bin == IF env.windows THEN "zig.exe" ELSE "zig"
     IN /\ Exists(fs, Join("OUT_DIR", bin)) /\ Exists(fs, "OUT_DIR/lib")
        /\ ~Exists(fs, Join(produced, bin)) /\ ~Exists(fs, Join(produced, "lib"))
        /\ Count("rename_bin") = 1 /\ Count("rename_lib") = 1
        /\ Count("status") = 1

C10_Witness ==
  /\ Returned /\ result = Ok /\ env.DO_IT /\ ~env.DOCS_RS
  /\ env.windows /\ cmd.args = <<"x86_64-windows-gnu", "baseline">>
  /\ fs["OUT_DIR/zig.exe"] = "full" /\ fs["OUT_DIR/lib"] = "full"
  /\ ~Exists(fs0, "OUT_DIR/zig.exe") /\ ~Exists(fs0, "OUT_DIR/lib")

\* The operations a successful run with DO_IT set has called, in order
FetchOps == <<"get", "create", "copy_to", "extract", "remove_file">>
BuildOps == <<"map_target", "status", "rename_bin", "rename_lib">>
DocsOps == <<"write", "create_dir_all">>

\* C11: a run returns Ok only without DO_IT or with the binary and lib/ in
\* OUT_DIR, and then every operation of its path has been called and has
\* succeeded (the subprocess exited 0); a run in which an operation failed
\* returns an error.
C11_SuccessMeansFullLayout ==
  /\ Returned => result.kind \in {"Ok", "Err"}
  /\ (Returned /\ result.kind = "Ok") =>
       \/ ~env.DO_IT /\ trace = <<>>
       \/ /\ env.DO_IT /\ env.DOCS_RS
          /\ trace = DocsOps
          /\ Exists(fs, OutBin) /\ Exists(fs, OutLib)
       \/ /\ env.DO_IT /\ ~env.DOCS_RS
          /\ trace \in {BuildOps, FetchOps \o BuildOps}
          /\ status = 0 /\ zig # None
          /\ Exists(fs, OutBin) /\ Exists(fs, OutLib)
  /\ (Returned /\ env.DO_IT /\ ~(Exists(fs, OutBin) /\ Exists(fs, OutLib))) =>
       (result.kind = "Err" /\ result.error # "")

C11_Witness ==
  /\ Returned /\ result = Ok /\ env.DO_IT /\ ~env.DOCS_RS /\ ~env.windows
  /\ trace = FetchOps \o BuildOps
  /\ fs[Join(out_dir, "zig")] = "full" /\ fs[OutLib] = "full"
  /\ ~Exists(fs0, Join(out_dir, "zig")) /\ ~Exists(fs0, OutLib)

\* Position of each operation and of each point of main() in the order
\* gate, source acquisition, target mapping, build invocation, relocation
\* (the documentation branch takes the place of the last three).
OpOrder ==
  [get |-> 1, create |-> 2, copy_to |-> 3, extract |-> 4, remove_file |-> 5,
   write |-> 6, create_dir_all |-> 7,
   map_target |-> 6, status |-> 7, rename_bin |-> 8, rename_lib |-> 9]
PcOrder ==
  [idle |-> 0, gate |-> 1, check_source |-> 2, get |-> 3, error_for_status |-> 4,
   create |-> 5, copy_to |-> 6, open |-> 7, zip_new |-> 8, extract |-> 9,
   remove_file |-> 10, mode |-> 11, write |-> 12, create_dir_all |-> 13,
   map_target |-> 12, status |-> 13, check_status |-> 14, rename_bin |-> 15,
   rename_lib |-> 16, returned |-> 17]
Running == pc \notin {"idle", "returned"}
Outcome ==
  IF result.kind = "Err" THEN "Fail"
  ELSE IF result.kind = "Ok" /\ ~env.DO_IT THEN "Skip"
  ELSE IF result.kind = "Ok" THEN "Done"
  ELSE "none"

\* C12: the operations of a run are called in the order gate, acquisition,
\* mapping, build, relocation, each at most once; every step of a run moves
\* main() forward, never back to an earlier point; a run that has returned
\* has exactly one outcome (Skip, Done or Fail); and every run that has
\* started eventually returns.
C12_StagesInOrderAndTerminate ==
  /\ [](/\ \A i, j \in DOMAIN trace : i < j => OpOrder[trace[i]] < OpOrder[trace[j]]
        /\ Count("get") <= 1 /\ Count("status") <= 1
        /\ Returned => Outcome \in {"Skip", "Done", "Fail"}
        /\ Running => Outcome = "none")
  /\ [][pc' = "gate" \/ PcOrder[pc'] > PcOrder[pc]]_vars
  /\ (Running ~> Returned)

C12_Witness ==
  /\ Returned /\ Outcome = "Done" /\ ~env.DOCS_RS
  /\ trace = FetchOps \o BuildOps
  /\ runs = 2

\* C13: in a run with DO_IT and DOCS_RS set, whether the source tree is there
\* or not, nothing is fetched, no archive is written, the source tree and
\* what lies under it stay as they are, the mapper is not called (an unlisted
\* triple does not fail the run), no subprocess is started and nothing is
\* renamed; the only paths written are the binary, left empty, and lib/.
C13_DocsSkipsRealWork ==
  (InRun /\ env.DO_IT /\ env.DOCS_RS) =>
     /\ NoAcquisition /\ response = 0
     /\ ~Called("map_target") /\ zig = None
     /\ ~Called("status") /\ cmd = NoCmd
     /\ NoRelocation
     /\ \A p \in AllPaths \ {OutBin, OutLib} : fs[p] = fs0[p]
     /\ fs[OutBin] \in {fs0[OutBin], "empty"}
     /\ fs[OutLib] \in {fs0[OutLib], "empty"}
     /\ Returned =>
          \/ result = Ok /\ fs[OutBin] = "empty" /\ Exists(fs, OutLib)
          \/ result.kind = "Err" /\ result.error \in {"write", "create_dir_all"}

C13_Witness ==
  /\ Returned /\ env.DO_IT /\ env.DOCS_RS /\ result = Ok
  /\ env.target = "riscv64gc-unknown-linux-gnu"
  /\ fs0[SourceTree] = "partial" /\ fs[SourceTree] = "partial"
  /\ fs0[OutBin] = "absent" /\ fs[OutBin] = "empty"

\* C14: in a run with DO_IT set and DOCS_RS unset that finds the source tree
\* on disk, half extracted or complete, nothing is fetched, written to the
\* archive or extracted and the tree is left as found; the first operation
\* the run calls is the mapper and, for a listed triple, the next one is the
\* subprocess.
C14_PresentTreeSkipsAcquisition ==
  (InRun /\ env.DO_IT /\ ~env.DOCS_RS /\ fs0[SourceTree] # "absent") =>
     /\ NoAcquisition /\ response = 0
     /\ fs[SourceTree] = fs0[SourceTree] /\ fs[Archive] = fs0[Archive]
     /\ pc \in {"gate", "check_source", "mode", "map_target", "status", "check_status",
                "rename_bin", "rename_lib", "returned"}
     /\ trace # <<>> => trace[1] = "map_target"
     /\ (Len(trace) >= 2 \/ (trace # <<>> /\ Returned /\ ~Unlisted(env.target))) =>
          (Len(trace) >= 2 /\ trace[2] = "status")

C14_Witness ==
  /\ runs = 2 /\ acquired = "no"
  /\ fs0[SourceTree] = "partial" /\ fs0[Archive] = "partial"
  /\ env.DO_IT /\ ~env.DOCS_RS
  /\ pc = "check_status" /\ trace = <<"map_target", "status">>

\* C15: no step removes the source tree: once zig-bootstrap exists it exists
\* after every step, of every run; its state changes only in the extraction
\* step of a run that found it absent; and a run comes to the existence
\* check only from the gate, so once.
C15_SourceTreeNeverDeleted ==
  [][/\ fs[SourceTree] # "absent" => fs'[SourceTree] # "absent"
     /\ pc' = "check_source" => pc = "gate"
     /\ fs'[SourceTree] # fs[SourceTree] =>
          (pc = "extract" /\ fs[SourceTree] = "absent" /\ fs0[SourceTree] = "absent")]_vars

C15_Witness ==
  /\ runs = 2 /\ acquired = "fetched"
  /\ Returned /\ result.kind = "Err" /\ Called("rename_bin")
  /\ fs[SourceTree] = "full"

\* C16: whenever the subprocess has been started, DO_IT is set, DOCS_RS is
\* not, the source tree exists (it was there when the run started, or this
\* run fetched, extracted and removed the archive), the triple is listed,
\* the arguments are the mapped pair and the working directory is the
\* source tree.
C16_BuildPreconditions ==
  Called("status") =>
     /\ env.DO_IT /\ ~env.DOCS_RS
     /\ fs[SourceTree] # "absent"
     /\ \/ fs0[SourceTree] # "absent" /\ NoAcquisition
        \/ /\ fs0[SourceTree] = "absent" /\ fs[SourceTree] = "full"
           /\ \A i \in 1..5 : trace[i] = FetchOps[i]
     /\ ~Unlisted(env.target) /\ zig # None
     /\ cmd.args = zig[1] /\ Len(cmd.args) = 2
     /\ cmd.cwd = "zig-bootstrap"
     /\ cmd.program = IF host_windows THEN "./build.bat" ELSE "./build"

C16_Witness ==
  /\ pc = "check_status" /\ Called("extract")
  /\ fs0[SourceTree] = "absent"
  /\ cmd.args = <<"aarch64-macos-none", "baseline">>
  /\ host_windows

\* C17: in a run with DO_IT set and DOCS_RS unset that found neither the
\* binary nor lib/ in OUT_DIR, lib/ in OUT_DIR implies the binary in OUT_DIR
\* at every point; when the rename of the binary fails OUT_DIR is unchanged
\* and the rename of lib/ is not called; when the rename of lib/ fails the
\* run returns an error with the binary in OUT_DIR and gone from the
\* subprocess output directory.
C17_BinaryFirstNoRollback ==
  (InRun /\ env.DO_IT /\ ~env.DOCS_RS /\ ~Exists(fs0, OutBin) /\ ~Exists(fs0, OutLib)) =>
     LET produced == "zig-bootstrap/out/zig-" \o cmd.args[1] \o "-" \o cmd.args[2]
         bin == IF env.windows THEN "zig.exe" ELSE "zig"
     IN /\ Exists(fs, OutLib) => Exists(fs, OutBin)
        /\ Called("rename_lib") => (Called("rename_bin") /\ Exists(fs, OutBin))
        /\ (Returned /\ Called("rename_bin") /\ ~Called("rename_lib")) =>
             /\ result.kind = "Err" /\ result.error = "rename"
             /\ OutDirUnchanged
        /\ (Returned /\ Called("rename_lib") /\ ~Exists(fs, OutLib)) =>
             /\ result.kind = "Err" /\ result.error = "rename"
             /\ Exists(fs, OutBin) /\ ~Exists(fs, Join(produced, bin))
        /\ (Returned /\ Called("rename_lib") /\ Exists(fs, OutLib)) => result = Ok

C17_Witness ==
  /\ Returned /\ env.DO_IT /\ ~env.DOCS_RS
  /\ ~Exists(fs0, OutBin) /\ ~Exists(fs0, OutLib)
  /\ Called("rename_lib") /\ result.error = "rename"
  /\ fs[OutBin] = "full" /\ ~Exists(fs, OutLib)
  /\ fs[Join(BootstrapOutDir(cmd.cwd, cmd.args), "lib")] = "full"

====
